---- MODULE Spec2Model ----
(***************************************************************************)
(* State-machine model of SCSession (sc_api_tools/http_session/            *)
(* sc_session.py): session construction, the login flow (authenticate,     *)
(* _get_initial_login_url, _follow_login_redirects) and the request        *)
(* dispatcher (get_rest_response).                                         *)
(*                                                                         *)
(* Every blocking HTTP exchange is one step: the step sends the request    *)
(* with the session state as it is at that moment and receives a response  *)
(* the server chooses.  The code that runs between two exchanges belongs   *)
(* to the step of the exchange it follows.  The login requests can fail    *)
(* with a connection error; a REST exchange always yields a response.      *)
(***************************************************************************)
EXTENDS Integers, Sequences, FiniteSets, TLC

VARIABLES
    config,     \* self.config: the ClusterConfig passed to __init__
    session,    \* "new" | "constructing" | "ready" | "failed": progress of __init__
    headers,    \* self.headers: header name -> value
    cookies,    \* self._cookies: cookie name -> value or None
    authReturned,  \* log: some authenticate() has returned without an error
    gateway,    \* the server side: free to answer anything, or bound to one script
    runs,       \* log: the proxy cookie after each of the last two authenticate()
                \* calls completed against a scripted gateway
    th          \* per caller: position in the code, locals, and the log of its current call

vars == <<config, session, headers, cookies, authReturned, gateway, runs, th>>

----------------------------------------------------------------------------
(* Bounds                                                                  *)

\* longest redirect chain the gateway serves after the login probe
MaxHops == 2
\* longest redirect history of the credential POST
MaxHistory == 2

----------------------------------------------------------------------------
(* Constants of the program                                                *)

None == "None"

CSRF_COOKIE_NAME == "_oauth2_proxy_csrf"
PROXY_COOKIE_NAME == "_oauth2_proxy"

\* imported from cluster_config; a path is a sequence of segments
API_PATTERN == <<"/api/v1.0/">>

ExpiredCodes == {401, 403}
\* variant: 303 See Other is not followed
RedirectCodesOnly302 == {302}
RedirectCodes == {302, 303}
\* variant: 201 Created is not taken for a success
SuccessCodesOnly200 == {200}
SuccessCodes == {200, 201}

Callers == {1, 2}

----------------------------------------------------------------------------
(* Strings that the code inspects are sequences of characters              *)

HttpsHost == <<"h","t","t","p","s",":","/","/","s","c">>
HttpPortHost == <<"h","t","t","p",":","/","/","s","c",":","8","0">>
HttpNoPortHost == <<"h","t","t","p",":","/","/","s","c">>
BareHost == <<"s","c">>

Hosts == {HttpsHost, HttpPortHost, HttpNoPortHost, BareHost}

UserName == <<"a","d","m","i","n">>
PassWord == <<"s","e","c","r","e","t">>

Configs == [host : Hosts, username : {UserName}, password : {PassWord}]

\* hosts and credentials as a placeholder configuration has them, and a
\* plain-http host whose name holds the letters "https"
PlaceholderHost == <<"h","t","t","p","s",":","/","/","0",".","0",".","0",".","0">>
HttpPlaceholderHost == <<"h","t","t","p",":","/","/","0",".","0",".","0",".","0",":","8","0">>
HttpNamedHttpsHost == <<"h","t","t","p",":","/","/","h","t","t","p","s">>
DummyUserName == <<"d","u","m","m","y","_","u","s","e","r">>
DummyPassWord == <<"d","u","m","m","y","_","p","a","s","s","w","o","r","d">>

LoginHosts == Hosts \cup {PlaceholderHost, HttpPlaceholderHost, HttpNamedHttpsHost}

LoginConfigs ==
    [host : LoginHosts, username : {UserName, DummyUserName},
     password : {PassWord, DummyPassWord}]

\* Python's `sub in s` for strings
Contains(s, sub) ==
    \E i \in 1..(Len(s) - Len(sub) + 1) : SubSeq(s, i, i + Len(sub) - 1) = sub

\* Python's s.count(ch) for a one-character ch
Count(s, ch) == Cardinality({i \in 1..Len(s) : s[i] = ch})

\* Python's s.startswith(prefix), on sequences
StartsWith(s, prefix) ==
    Len(s) >= Len(prefix) /\ SubSeq(s, 1, Len(prefix)) = prefix

----------------------------------------------------------------------------
(* Header and cookie mappings                                              *)

NoHeaders == <<>>

HeadersUpdate(h, k, v) == [n \in (DOMAIN h) \cup {k} |-> IF n = k THEN v ELSE h[n]]
HeadersPop(h, k) == [n \in (DOMAIN h) \ {k} |-> h[n]]
HeadersGet(h, k, default) == IF k \in DOMAIN h THEN h[k] ELSE default

InitialCookies == [n \in {CSRF_COOKIE_NAME, PROXY_COOKIE_NAME} |-> None]

\* variant: a value already stored is dropped instead of replaced
CookiesUpdateDropStored(ck, k, v) ==
    [n \in (DOMAIN ck) \cup {k} |->
        IF n # k THEN ck[n] ELSE IF k \in DOMAIN ck /\ ck[k] # None THEN None ELSE v]

CookiesUpdate(ck, k, v) == [n \in (DOMAIN ck) \cup {k} |-> IF n = k THEN v ELSE ck[n]]

----------------------------------------------------------------------------
(* What the server can answer                                              *)

\* values of the CSRF cookie a response of the redirect chase can carry;
\* None: the response carries no such cookie
CsrfValues == {None, "", "c1", "c2"}
\* values of the proxy cookie a response of the credential POST can carry
ProxyValues == {None, "p1", "p2"}
\* statuses the gateway answers during the login probe and the chase
ChaseStatuses == {302, 303, 200}
\* the proxy cookie carried by the final response of the credential POST,
\* the one its redirects lead to
FinalProxyValues == {"p3"}
\* redirect histories of the credential POST: the proxy cookie each carried
Histories == UNION { [1..n -> ProxyValues] : n \in 0..MaxHistory }

\* the login probe's own response may carry a CSRF cookie as well
ProbeCsrfValues == {None, "c2"}

\* the k-th URL of the gateway's login chain; 0 is {host}/user/login and a
\* redirect served at URL k names URL k+1 as response.next.url
LoginProbeUrl == 0

RawDetail == "{\"detail\": \"x\"}"
RawList == "[1]"
RawHtml == "<html>login</html>"

JsonCT == "application/json"
HtmlCT == "text/html; charset=utf-8"

\* responses a REST endpoint can give: status, Content-Type (None: absent), body
RestResponses ==
    { [status |-> 200, ctype |-> JsonCT, body |-> RawList],
      [status |-> 200, ctype |-> None,   body |-> RawList],
      [status |-> 201, ctype |-> JsonCT, body |-> RawDetail],
      [status |-> 200, ctype |-> HtmlCT, body |-> RawHtml],
      [status |-> 201, ctype |-> HtmlCT, body |-> RawHtml],
      [status |-> 403, ctype |-> None,   body |-> RawHtml],
      [status |-> 401, ctype |-> JsonCT, body |-> RawDetail],
      [status |-> 500, ctype |-> JsonCT, body |-> RawDetail],
      [status |-> 500, ctype |-> None,   body |-> RawHtml] }

\* what a REST endpoint answers at a gateway that answers with "few"
ConcRestResponses ==
    { [status |-> 200, ctype |-> JsonCT, body |-> RawList],
      [status |-> 403, ctype |-> None,   body |-> RawHtml] }

NoResponse == [status |-> 0, ctype |-> None, body |-> ""]

\* response.json(): the decoded value, or a JSONDecodeError
JsonDecode(body) ==
    CASE body = RawDetail -> [ok |-> TRUE, value |-> "dict(detail='x')"]
      [] body = RawList   -> [ok |-> TRUE, value |-> "list(1)"]
      [] OTHER            -> [ok |-> FALSE, value |-> ""]

\* `"text/html" in response.headers.get("Content-Type", [])`
IsHtml(ctype) == ctype = HtmlCT

----------------------------------------------------------------------------
(* Calls the user can make                                                 *)

PrefixedPath == API_PATTERN \o <<"workspaces">>
PlainPath == <<"workspaces">>

\* (url, method, contenttype, data) of get_rest_response
Calls ==
    { [url |-> PrefixedPath, method |-> "GET",  contenttype |-> "json",      data |-> None],
      [url |-> PlainPath,    method |-> "POST", contenttype |-> "json",      data |-> "d"],
      [url |-> PlainPath,    method |-> "POST", contenttype |-> "jpeg",      data |-> "d"],
      [url |-> PrefixedPath, method |-> "POST", contenttype |-> "multipart", data |-> "d"],
      [url |-> PlainPath,    method |-> "GET",  contenttype |-> "",          data |-> None],
      [url |-> PlainPath,    method |-> "POST", contenttype |-> "zip",       data |-> "d"] }

NoArgs == [url |-> <<>>, method |-> "", contenttype |-> "", data |-> None]
NoParams == [method |-> "", url |-> <<>>, kw |-> "", data |-> None]
NoResult == [kind |-> "none", method |-> "", url |-> <<>>, data |-> "",
             status |-> 0, response |-> NoResponse]
NoPost == [sent |-> FALSE, url |-> 0, cookie |-> None, history |-> <<>>, final |-> None]

IdleThread ==
    [ pc        |-> "idle",
      ctx       |-> "none",      \* who called authenticate: "init" | "rest" | "user"
      op        |-> "none",      \* the public operation in progress
      args      |-> NoArgs,      \* log: the arguments of the get_rest_response call
      url       |-> <<>>,        \* local `url` after the prefix strip
      params    |-> NoParams,    \* request_params (cookies is a reference to self._cookies)
      resp      |-> [status |-> 0, url |-> 0],   \* `response` of the redirect chase
      login_path |-> 0,          \* local `login_path` of authenticate()
      post      |-> NoPost,      \* the credential POST and its response
      chain     |-> <<>>,        \* log: the responses of the chase in progress, the probe's first
      pre       |-> [headers |-> NoHeaders, cookies |-> InitialCookies],
                                 \* log: session state when authenticate() was entered
      reqs      |-> <<>>,        \* log: REST requests sent by this call
      resps     |-> <<>>,        \* log: REST responses received by this call
      events    |-> <<>>,        \* log: order of requests and authenticate()
      authCalls |-> 0,           \* log: authenticate() invocations by this call
      authCookies |-> InitialCookies,  \* log: self._cookies when authenticate() returned
      posts     |-> 0,           \* log: credential POSTs issued by the authenticate() run
      raisedAt  |-> "none",      \* log: where the call was when its exception was raised
      csrfSet   |-> FALSE,       \* log: the chase of the run in progress stored a CSRF cookie
      alone     |-> TRUE,        \* log: no other caller has taken a step since this
                                 \* call selected its headers and before it sent
      result    |-> NoResult ]

\* the callers as a step of caller c leaves them, c itself apart: a caller
\* that has selected its headers and not sent yet is no longer alone
Touched(c) ==
    [d \in Callers |->
        IF d # c /\ th[d].pc = "selected" THEN [th[d] EXCEPT !.alone = FALSE] ELSE th[d]]

----------------------------------------------------------------------------
(* The gateway.  A free gateway answers every request with any response,   *)
(* or not at all; a scripted one keeps its state: it answers every login   *)
(* probe, every follow-up GET and every credential POST as it did before.  *)

FreeGateway ==
    [fixed |-> FALSE, chain |-> <<>>, history |-> <<>>, final |-> None,
     rest |-> "any"]

\* what the gateway answers to a REST request
RestAnswers == IF gateway.rest = "few" THEN ConcRestResponses ELSE RestResponses

\* the probe's response and the follow-up responses of a scripted login
\* chain: redirects up to the last response, which is none
ScriptChains ==
    UNION { { ch \in [1..n -> [status : {302, 200}, csrf : CsrfValues]] :
                /\ ch[1].csrf \in ProbeCsrfValues
                /\ ch[n].status = 200
                /\ \A i \in 1..(n - 1) : ch[i].status = 302 } : n \in 1..(MaxHops + 1) }

ScriptedGateways ==
    { [fixed |-> TRUE, chain |-> ch, history |-> hist, final |-> fin,
       rest |-> "any"] :
         ch \in ScriptChains, hist \in Histories, fin \in FinalProxyValues }

\* the k-th response of the login chain (the probe's is the first) may have
\* status s and carry the CSRF cookie v
Serves(k, s, v) ==
    gateway.fixed =>
        /\ k <= Len(gateway.chain)
        /\ gateway.chain[k] = [status |-> s, csrf |-> v]

\* the credential POST may be answered with redirect history hist and a
\* final response carrying fin
ServesPost(hist, fin) ==
    gateway.fixed => (hist = gateway.history /\ fin = gateway.final)

\* the log of the proxy cookie left by a completed authenticate()
Ran(ck) ==
    IF ~gateway.fixed THEN runs
    ELSE IF Len(runs) < 2 THEN Append(runs, ck[PROXY_COOKIE_NAME])
    ELSE <<runs[2], ck[PROXY_COOKIE_NAME]>>

----------------------------------------------------------------------------
Init ==
    /\ config \in Configs
    /\ session = "new"
    /\ headers = NoHeaders
    /\ cookies = InitialCookies
    /\ authReturned = FALSE
    /\ gateway = FreeGateway
    /\ runs = <<>>
    /\ th = [c \in Callers |-> IdleThread]

----------------------------------------------------------------------------
(* authenticate(): lines 79-122, with _get_initial_login_url and           *)
(* _follow_login_redirects                                                 *)

FormCT == "application/x-www-form-urlencoded"

\* entry of authenticate() from context ctx, the session holding h and ck
StartAuth(t, ctx, h, ck) ==
    [t EXCEPT !.pc = "auth_probe", !.ctx = ctx,
              !.resp = IdleThread.resp, !.post = NoPost, !.chain = <<>>,
              !.pre = [headers |-> h, cookies |-> ck],
              !.events = Append(@, "authenticate"),
              !.authCalls = @ + 1, !.posts = 0, !.raisedAt = "none",
              !.csrfSet = FALSE]

\* variant: get_rest_response catches the exception and resends all the same
RaisedCaughtByDispatcher(t, kind) ==
    IF t.ctx = "rest"
      THEN [t EXCEPT !.pc = "resend", !.resp = IdleThread.resp, !.login_path = 0,
                     !.chain = <<>>, !.csrfSet = FALSE, !.raisedAt = t.pc]
      ELSE [t EXCEPT !.pc = "done", !.resp = IdleThread.resp, !.login_path = 0,
                     !.chain = <<>>, !.csrfSet = FALSE, !.raisedAt = t.pc,
                     !.result = [NoResult EXCEPT !.kind = kind]]

\* an exception leaves authenticate(); it is caught by nobody up to the caller
Raised(t, kind) ==
    [t EXCEPT !.pc = "done", !.resp = IdleThread.resp, !.login_path = 0,
              !.chain = <<>>, !.csrfSet = FALSE, !.raisedAt = t.pc,
              !.result = [NoResult EXCEPT !.kind = kind]]

SessionAfterRaise(t) == IF t.ctx = "init" THEN "failed" ELSE session

\* authenticate() returns normally
Returned(t, ck) ==
    [t EXCEPT !.pc = IF t.ctx = "rest" THEN "resend" ELSE "done",
              !.resp = IdleThread.resp, !.login_path = 0,
              !.events = Append(@, "authenticated"),
              !.authCookies = ck,
              !.result = IF t.ctx = "rest" THEN @ ELSE [NoResult EXCEPT !.kind = "ok"]]

SessionAfterReturn(t) == IF t.ctx = "init" THEN "ready" ELSE session

\* variant: the credentials are looked at before the host
ConnectionErrorKindCredentialsFirst ==
    IF \/ Contains(config.password, <<"d","u","m","m","y">>)
       \/ Contains(config.username, <<"d","u","m","m","y">>)
        THEN "CredentialsConfigError"
    ELSE IF Contains(config.host, <<"0",".","0",".","0",".","0">>)
        THEN "HostConfigError"
    ELSE "ConnectionError"

\* the handler of requests.exceptions.ConnectionError, lines 87-98
ConnectionErrorKind ==
    IF Contains(config.host, <<"0",".","0",".","0",".","0">>)
        THEN "HostConfigError"
    ELSE IF \/ Contains(config.password, <<"d","u","m","m","y">>)
            \/ Contains(config.username, <<"d","u","m","m","y">>)
        THEN "CredentialsConfigError"
    ELSE "ConnectionError"

\* statuses the gateway may answer when n redirects were already served
StatusesAfter(n) == IF n < MaxHops THEN ChaseStatuses ELSE ChaseStatuses \ RedirectCodes

\* the log keeps of a response of the chase whether it was a redirect (HTTP
\* 302 Found or 303 See Other), its URL and the CSRF cookie it carried
Logged(response) ==
    [redirect |-> response.status = 302 \/ response.status = 303,
     url |-> response.url, csrf |-> response.csrf]

\* line 75: GET {host}/user/login, allow_redirects=False
AuthProbe(c) ==
    /\ th[c].pc = "auth_probe"
    /\ \/ /\ ~gateway.fixed
          /\ th' = [Touched(c) EXCEPT ![c] = Raised(@, ConnectionErrorKind)]
          /\ session' = SessionAfterRaise(th[c])
       \/ /\ \E s \in StatusesAfter(0), v \in ProbeCsrfValues :
                LET response == [status |-> s, url |-> LoginProbeUrl, csrf |-> v]
                IN /\ Serves(1, s, v)
                   /\ th' = [Touched(c) EXCEPT ![c] =
                            [@ EXCEPT !.pc = "auth_chase",
                                      !.resp = [status |-> response.status,
                                                url |-> response.url],
                                      !.chain = <<Logged(response)>>]]
          /\ session' = session
    /\ UNCHANGED <<config, headers, cookies, authReturned, gateway, runs>>

\* variant: an empty cookie value counts as a value
TruthyNotNone(v) == v # None

\* `if proxy_csrf:` line 63
Truthy(v) == v # None /\ v # ""

\* variant: a CSRF cookie already stored is kept, the first hop wins
StoreCsrfKeepFirst(ck, proxy_csrf) ==
    IF Truthy(proxy_csrf) /\ ck[CSRF_COOKIE_NAME] = None
        THEN CookiesUpdate(ck, CSRF_COOKIE_NAME, proxy_csrf) ELSE ck

StoreCsrf(ck, proxy_csrf) ==
    IF Truthy(proxy_csrf) THEN CookiesUpdate(ck, CSRF_COOKIE_NAME, proxy_csrf) ELSE ck

\* lines 59-65: one follow-up GET of _follow_login_redirects
AuthFollow(c) ==
    /\ th[c].pc = "auth_chase"
    /\ th[c].resp.status \in RedirectCodes
    /\ \/ /\ ~gateway.fixed
          /\ th' = [Touched(c) EXCEPT ![c] = Raised(@, ConnectionErrorKind)]
          /\ session' = SessionAfterRaise(th[c])
          /\ cookies' = cookies
       \/ /\ \E s \in StatusesAfter(Len(th[c].chain)), v \in CsrfValues :
                LET redirected == [status |-> s, url |-> th[c].resp.url + 1, csrf |-> v]
                IN /\ Serves(Len(th[c].chain) + 1, s, v)
                   /\ cookies' = StoreCsrf(cookies, redirected.csrf)
                   /\ th' = [Touched(c) EXCEPT ![c] =
                                [@ EXCEPT !.resp = [status |-> redirected.status,
                                                    url |-> redirected.url],
                                          !.chain = Append(@, Logged(redirected)),
                                          !.csrfSet = @ \/ Truthy(redirected.csrf)]]
          /\ session' = session
    /\ UNCHANGED <<config, headers, authReturned, gateway, runs>>

\* lines 66-67, 76-77 and 86: a non-redirect response ends the chase and its
\* URL becomes login_path
ChaseReturn(c) ==
    /\ th[c].pc = "auth_chase"
    /\ th[c].resp.status \notin RedirectCodes
    /\ th' = [Touched(c) EXCEPT ![c] = [@ EXCEPT !.pc = "auth_submit",
                                         !.login_path = th[c].resp.url]]
    /\ UNCHANGED <<config, session, headers, cookies, authReturned, gateway, runs>>

\* lines 99-109: the login overlay is installed and the credentials are
\* posted to login_path
AuthSubmit(c) ==
    /\ th[c].pc = "auth_submit"
    /\ LET login_path == th[c].login_path
       IN /\ headers' = HeadersUpdate(NoHeaders, "Content-Type", FormCT)
          /\ \/ /\ ~gateway.fixed
                /\ th' = [Touched(c) EXCEPT ![c] =
                            Raised([th[c] EXCEPT !.posts = @ + 1], "ConnectionError")]
                /\ session' = SessionAfterRaise(th[c])
             \/ /\ \E hist \in Histories, fin \in FinalProxyValues :
                   /\ ServesPost(hist, fin)
                   /\ th' = [Touched(c) EXCEPT ![c] =
                               [@ EXCEPT !.pc = "auth_finish",
                                         !.chain = <<>>,
                                         !.posts = @ + 1,
                                         !.post = [sent |-> TRUE, url |-> login_path,
                                                   cookie |-> cookies[CSRF_COOKIE_NAME],
                                                   history |-> hist, final |-> fin]]]
                /\ session' = session
    /\ UNCHANGED <<config, cookies, authReturned, gateway, runs>>

\* variant: response.history[0], the first redirect of the POST
PreviousResponseFirst(history) == history[1]

\* response.history[-1]
PreviousResponse(history) == history[Len(history)]

\* the log of a run that has its POST answered keeps the responses of the
\* POST only
Finished(t) ==
    [t EXCEPT !.csrfSet = FALSE, !.post.url = 0, !.post.cookie = None]

\* lines 110-122
AuthFinish(c) ==
    /\ th[c].pc = "auth_finish"
    /\ IF th[c].post.history = <<>>
         THEN /\ th' = [Touched(c) EXCEPT ![c] =
                            Raised(Finished(th[c]), "LoginRejected")]
              /\ session' = SessionAfterRaise(th[c])
              /\ cookies' = cookies
              /\ authReturned' = authReturned
              /\ runs' = Ran(cookies)
         ELSE LET ck == CookiesUpdate(cookies, PROXY_COOKIE_NAME,
                                      PreviousResponse(th[c].post.history))
              IN /\ cookies' = ck
                 /\ th' = [Touched(c) EXCEPT ![c] =
                               Returned(Finished(th[c]), ck)]
                 /\ session' = SessionAfterReturn(th[c])
                 /\ authReturned' = TRUE
                 /\ runs' = Ran(ck)
    /\ UNCHANGED <<config, headers, gateway>>

\* a direct call of the public method authenticate()
Authenticate(c) ==
    /\ session = "ready"
    /\ th[c].pc = "idle"
    /\ th' = [Touched(c) EXCEPT ![c] = StartAuth([IdleThread EXCEPT !.op = "authenticate"], "user",
                                         headers, cookies)]
    /\ UNCHANGED <<config, session, headers, cookies, authReturned, gateway, runs>>

----------------------------------------------------------------------------
(* __init__: lines 18-49                                                   *)

SCSession_init ==
    /\ session = "new"
    /\ headers' = HeadersUpdate(headers, "Connection", "keep-alive")
    /\ cookies' = InitialCookies
    /\ IF Contains(config.host, <<"h","t","t","p","s">>)
         THEN /\ session' = "constructing"
              /\ th' = [th EXCEPT ![1] = StartAuth([IdleThread EXCEPT !.op = "init"], "init",
                                                   headers', cookies')]
       ELSE IF Contains(config.host, <<"h","t","t","p",":">>)
         THEN IF Count(config.host, ":") # 2
                THEN /\ session' = "failed"
                     /\ th' = [th EXCEPT ![1] =
                                 Raised([IdleThread EXCEPT !.op = "init"], "ConfigError")]
                ELSE /\ session' = "ready"
                     /\ th' = [th EXCEPT ![1] =
                                 [IdleThread EXCEPT !.op = "init", !.pc = "done",
                                                    !.result = [NoResult EXCEPT !.kind = "ok"]]]
       ELSE /\ session' = "failed"
            /\ th' = [th EXCEPT ![1] =
                        Raised([IdleThread EXCEPT !.op = "init"], "ConfigError")]
    /\ UNCHANGED <<config, authReturned, gateway, runs>>

----------------------------------------------------------------------------
(* get_rest_response(): lines 124-186                                      *)

\* lines 135-136
StripApiPattern(url) ==
    IF StartsWith(url, API_PATTERN) THEN SubSeq(url, Len(API_PATTERN) + 1, Len(url)) ELSE url

\* variant: for the kinds without a Content-Type the header is left as it is
SelectContentTypeNoPop(h, contenttype) ==
    CASE contenttype = "json"      -> HeadersUpdate(h, "Content-Type", "application/json")
      [] contenttype = "jpeg"      -> HeadersUpdate(h, "Content-Type", "image/jpeg")
      [] contenttype = "zip"       -> HeadersUpdate(h, "Content-Type", "application/zip")
      [] OTHER                     -> h

\* lines 138-147
SelectContentType(h, contenttype) ==
    CASE contenttype = "json"      -> HeadersUpdate(h, "Content-Type", "application/json")
      [] contenttype = "jpeg"      -> HeadersUpdate(h, "Content-Type", "image/jpeg")
      [] contenttype = "multipart" -> HeadersPop(h, "Content-Type")
      [] contenttype = ""          -> HeadersPop(h, "Content-Type")
      [] contenttype = "zip"       -> HeadersUpdate(h, "Content-Type", "application/zip")
      [] OTHER                     -> h

\* lines 149-161; "cookies": self._cookies is a reference, read when a request is sent
RequestParams(url, method, contenttype, data) ==
    [ method |-> method,
      url    |-> <<"base_url">> \o url,
      kw     |-> IF contenttype = "json" THEN "json" ELSE "files",
      data   |-> data ]

\* variant: only the proxy cookie is sent along
WireRequestProxyCookieOnly(params, h, ck) ==
    [ method |-> params.method, url |-> params.url, kw |-> params.kw,
      data |-> params.data, headers |-> h,
      cookies |-> [n \in {PROXY_COOKIE_NAME} |-> ck[n]] ]

\* self.request(**request_params): what goes on the wire is request_params
\* merged with the session's headers and the cookie mapping as they are now
WireRequest(params, h, ck) ==
    [ method |-> params.method, url |-> params.url, kw |-> params.kw,
      data |-> params.data, headers |-> h, cookies |-> ck ]

\* variant: every failure status is taken for an expired session
ExpiredAnyFailure(r) == r.status \notin SuccessCodes \/ IsHtml(r.ctype)

\* lines 164-167
Expired(r) == r.status \in ExpiredCodes \/ IsHtml(r.ctype)

\* variant: the retry's response is dropped, line 172 does not rebind `response`
FinalResponseFirst(t) == t.resps[1]

\* the local `response` when line 174 is reached: the latest one received
FinalResponse(t) == t.resps[Len(t.resps)]

\* variant: an HTML response is a request failure whatever its status
ClassifyHtmlFails(t, r) ==
    IF r.status \notin SuccessCodes \/ IsHtml(r.ctype)
      THEN [NoResult EXCEPT !.kind = "RequestFailure",
                            !.method = t.params.method,
                            !.url = t.url,
                            !.data = IF JsonDecode(r.body).ok
                                       THEN JsonDecode(r.body).value ELSE "",
                            !.status = r.status]
    ELSE IF r.ctype = "application/json"
      THEN IF JsonDecode(r.body).ok
             THEN [NoResult EXCEPT !.kind = "json", !.data = JsonDecode(r.body).value]
             ELSE [NoResult EXCEPT !.kind = "JSONDecodeError"]
    ELSE [NoResult EXCEPT !.kind = "response", !.response = r]

\* lines 174-186
Classify(t, r) ==
    IF r.status \notin SuccessCodes
      THEN [NoResult EXCEPT !.kind = "RequestFailure",
                            !.method = t.params.method,
                            !.url = t.url,
                            !.data = IF JsonDecode(r.body).ok
                                       THEN JsonDecode(r.body).value ELSE "",
                            !.status = r.status]
    ELSE IF r.ctype = "application/json"
      THEN IF JsonDecode(r.body).ok
             THEN [NoResult EXCEPT !.kind = "json", !.data = JsonDecode(r.body).value]
             ELSE [NoResult EXCEPT !.kind = "JSONDecodeError"]
    ELSE [NoResult EXCEPT !.kind = "response", !.response = r]

\* lines 135-161: everything before the first request is sent
Call(c) ==
    /\ session = "ready"
    /\ th[c].pc = "idle"
    /\ \E a \in Calls :
          LET url == StripApiPattern(a.url)
          IN /\ headers' = SelectContentType(headers, a.contenttype)
             /\ th' = [Touched(c) EXCEPT ![c] =
                         [IdleThread EXCEPT
                             !.pc = "selected", !.op = "rest",
                             !.args = a, !.url = url,
                             !.params = RequestParams(url, a.method, a.contenttype, a.data)]]
    /\ UNCHANGED <<config, session, cookies, authReturned, gateway, runs>>

\* the log of one REST exchange
Exchanged(t, req, r) ==
    [t EXCEPT !.reqs = Append(@, req), !.resps = Append(@, r),
              !.events = Append(@, "request")]

\* lines 162-171 (and 174-186 when the response is no expiry signal)
SendFirst(c) ==
    /\ th[c].pc = "selected"
    /\ \E r \in RestAnswers :
          LET t == Exchanged(th[c], WireRequest(th[c].params, headers, cookies), r)
          IN th' = [Touched(c) EXCEPT ![c] =
                      IF Expired(r)
                        THEN StartAuth(t, "rest", headers, cookies)
                        ELSE [t EXCEPT !.pc = "done",
                                       !.result = Classify(t, FinalResponse(t))]]
    /\ UNCHANGED <<config, session, headers, cookies, authReturned, gateway, runs>>

\* lines 172-186
Resend(c) ==
    /\ th[c].pc = "resend"
    /\ \E r \in RestAnswers :
          LET t == Exchanged(th[c], WireRequest(th[c].params, headers, cookies), r)
          IN th' = [Touched(c) EXCEPT ![c] = [t EXCEPT !.pc = "done", !.post = NoPost,
                                               !.result = Classify(t, FinalResponse(t))]]
    /\ UNCHANGED <<config, session, headers, cookies, authReturned, gateway, runs>>

\* the caller has the result (or the exception) and is free to call again
Return(c) ==
    /\ session = "ready"
    /\ th[c].pc = "done"
    /\ th' = [Touched(c) EXCEPT ![c] = IdleThread]
    /\ UNCHANGED <<config, session, headers, cookies, authReturned, gateway, runs>>

----------------------------------------------------------------------------
(* One caller at a time uses the session                                   *)

Step(c) ==
    \/ Authenticate(c)
    \/ AuthProbe(c)
    \/ AuthFollow(c)
    \/ ChaseReturn(c)
    \/ AuthSubmit(c)
    \/ AuthFinish(c)
    \/ Call(c)
    \/ SendFirst(c)
    \/ Resend(c)
    \/ Return(c)

Next == SCSession_init \/ Step(1)

Spec == Init /\ [][Next]_vars

----------------------------------------------------------------------------
(* Construction and explicit logins only, with every configuration, against *)
(* a free gateway or a scripted one                                         *)

InitLogin ==
    /\ \/ config \in LoginConfigs /\ gateway = FreeGateway
       \/ config \in Configs /\ gateway \in ScriptedGateways
    /\ session = "new"
    /\ headers = NoHeaders
    /\ cookies = InitialCookies
    /\ authReturned = FALSE
    /\ runs = <<>>
    /\ th = [c \in Callers |-> IdleThread]

NextLogin ==
    \/ SCSession_init
    \/ Authenticate(1)
    \/ AuthProbe(1)
    \/ AuthFollow(1)
    \/ ChaseReturn(1)
    \/ AuthSubmit(1)
    \/ AuthFinish(1)
    \/ Return(1)

SpecLogin == InitLogin /\ [][NextLogin]_vars

----------------------------------------------------------------------------
(* Two callers use one session without a lock: their steps interleave       *)

\* gateways of the concurrent runs: the login page is reached after one
\* redirect, and the login is accepted
ConcGateways ==
    { [fixed |-> TRUE,
       chain |-> <<[status |-> 302, csrf |-> None], [status |-> 200, csrf |-> v]>>,
       history |-> <<"p1">>, final |-> "p3", rest |-> "few"] :
         v \in {"c1"} }

InitConc ==
    /\ config = [host |-> HttpsHost, username |-> UserName, password |-> PassWord]
    /\ gateway \in ConcGateways
    /\ session = "new"
    /\ headers = NoHeaders
    /\ cookies = InitialCookies
    /\ authReturned = FALSE
    /\ runs = <<>>
    /\ th = [c \in Callers |-> IdleThread]

NextConc == SCSession_init \/ \E c \in Callers : Step(c)

SpecConc == InitConc /\ [][NextConc]_vars

----------------------------------------------------------------------------
(* Properties                                                              *)

Last(q) == q[Len(q)]

\* a get_rest_response call of caller c has returned or raised
RestCallDone(c) == th[c].op = "rest" /\ th[c].pc = "done"

\* authenticate() has just returned without an error to caller c
JustAuthenticated(c) ==
    th[c].events # <<>> /\ Last(th[c].events) = "authenticated"

\* the Content-Type the dispatcher's contract assigns to a contentKind;
\* None: the header is removed
ContentTypeFor(kind) ==
    CASE kind = "json" -> "application/json"
      [] kind = "jpeg" -> "image/jpeg"
      [] kind = "zip"  -> "application/zip"
      [] OTHER         -> None

\* C1: a call whose first response is a 403 and whose second is a 200 returns
\* the second response's body, has invoked authenticate() exactly once, in the
\* order request, authenticate() entered, authenticate() returned, request,
\* and its second request carries the cookies as authenticate() left them.
C1_ReauthThenSuccess ==
    \A c \in Callers :
        ( /\ RestCallDone(c)
          /\ Len(th[c].resps) = 2
          /\ th[c].resps[1].status = 403
          /\ th[c].resps[2].status = 200 )
        => /\ th[c].result.kind \in {"json", "response"}
           /\ th[c].result.kind = "json"
                 => th[c].result.data = JsonDecode(th[c].resps[2].body).value
           /\ th[c].result.kind = "response"
                 => th[c].result.response = th[c].resps[2]
           /\ th[c].authCalls = 1
           /\ th[c].events = <<"request", "authenticate", "authenticated", "request">>
           /\ th[c].reqs[2].cookies = th[c].authCookies

C1_Witness ==
    \E c \in Callers :
        /\ RestCallDone(c)
        /\ Len(th[c].resps) = 2
        /\ th[c].resps[1].status = 403
        /\ th[c].resps[2] = [status |-> 200, ctype |-> JsonCT, body |-> RawList]
        /\ th[c].result.kind = "json"
        /\ th[c].result.data = "list(1)"
        /\ th[c].reqs[2].cookies # th[c].reqs[1].cookies

\* C2: a call sends at most two REST requests and invokes authenticate() at
\* most once; two 403 responses end it with the request failure of the second
\* response; a first response that is no expiry signal (status other than
\* 401/403, Content-Type not HTML) causes no authenticate() and no second request.
C2_AtMostOneRetry ==
    \A c \in Callers :
        th[c].op = "rest" =>
            /\ Len(th[c].reqs) <= 2
            /\ th[c].authCalls <= 1
            /\ ( /\ th[c].pc = "done"
                 /\ Len(th[c].resps) = 2
                 /\ th[c].resps[1].status = 403
                 /\ th[c].resps[2].status = 403 )
               => /\ th[c].result.kind = "RequestFailure"
                  /\ th[c].result.status = 403
            /\ ( /\ Len(th[c].resps) >= 1
                 /\ th[c].resps[1].status \notin {401, 403}
                 /\ th[c].resps[1].ctype # HtmlCT )
               => /\ th[c].authCalls = 0
                  /\ Len(th[c].reqs) = 1
                  /\ th[c].pc = "done"

C2_Witness ==
    \E c \in Callers :
        /\ RestCallDone(c)
        /\ Len(th[c].resps) = 2
        /\ th[c].resps[1].status = 403
        /\ th[c].resps[2].status = 403
        /\ th[c].result.kind = "RequestFailure"

\* what the request failure of response f carries for the call of caller c
FailureCarries(c, f) ==
    /\ th[c].result.method = th[c].args.method
    /\ th[c].result.url = <<"workspaces">>
    /\ th[c].result.data = ( CASE f.body = RawDetail -> "dict(detail='x')"
                               [] f.body = RawList   -> "list(1)"
                               [] OTHER              -> "" )
    /\ th[c].result.status = f.status

\* C3 as stated: a call raises a request failure exactly if its final response
\* (the first when no retry happened, otherwise the second) has a status
\* outside {200, 201}, and the failure carries the method, the stripped path,
\* the decoded body ("" if it is no JSON) and the final status.
C3_FailureIffFinalStatus ==
    \A c \in Callers :
        RestCallDone(c) =>
            LET f == Last(th[c].resps)
            IN /\ (th[c].result.kind = "RequestFailure") <=> (f.status \notin {200, 201})
               /\ th[c].result.kind = "RequestFailure" => FailureCarries(c, f)

\* C3 amended: the same, for every call whose re-authentication, if one was
\* triggered, returned without an error (so that a final response is classified).
C3_FailureIffFinalStatusClassified ==
    \A c \in Callers :
        (RestCallDone(c) /\ (th[c].authCalls = 0 \/ Len(th[c].resps) = 2)) =>
            LET f == Last(th[c].resps)
            IN /\ (th[c].result.kind = "RequestFailure") <=> (f.status \notin {200, 201})
               /\ th[c].result.kind = "RequestFailure" => FailureCarries(c, f)

C3_Witness ==
    \E c \in Callers :
        /\ RestCallDone(c)
        /\ th[c].args.url = PrefixedPath
        /\ Len(th[c].resps) = 2
        /\ th[c].resps[2] = [status |-> 500, ctype |-> JsonCT, body |-> RawDetail]
        /\ th[c].result = [NoResult EXCEPT !.kind = "RequestFailure",
                                           !.method = th[c].args.method,
                                           !.url = <<"workspaces">>,
                                           !.data = "dict(detail='x')",
                                           !.status = 500]

\* C4: when the credential POST comes back with an empty redirect history,
\* authenticate() fails with the login-rejected error and, the cookies having
\* been unset before, both cookies are still unset and neither the cookie
\* mapping nor the header overlay shows a change made by the failed attempt.
C4_RejectedLoginLeavesNoTrace ==
    \A c \in Callers :
        ( /\ th[c].pc = "done"
          /\ th[c].post.sent
          /\ th[c].post.history = <<>>
          /\ th[c].pre.cookies = InitialCookies )
        => /\ th[c].result.kind = "LoginRejected"
           /\ cookies[CSRF_COOKIE_NAME] = None
           /\ cookies[PROXY_COOKIE_NAME] = None
           /\ headers = th[c].pre.headers

\* C5: the proxy session cookie holds a value right after every authenticate()
\* that returned without an error, and holds none as long as no authenticate()
\* has returned without an error.
C5_ProxyCookieSetByLogin ==
    /\ \A c \in Callers : JustAuthenticated(c) => cookies[PROXY_COOKIE_NAME] # None
    /\ ~authReturned => cookies[PROXY_COOKIE_NAME] = None

\* C6: every REST request is sent with Connection: keep-alive in the
\* session's header overlay.
C6_KeepAliveOnEveryRequest ==
    \A c \in Callers :
        \A i \in 1..Len(th[c].reqs) :
            HeadersGet(th[c].reqs[i].headers, "Connection", None) = "keep-alive"

\* C7: the request resent after authenticate() is the first one again: same
\* method, URL and body, and the Content-Type selected for the call's
\* contentKind.
C7_ResendIsIdentical ==
    \A c \in Callers :
        Len(th[c].reqs) = 2 =>
            /\ th[c].reqs[2].method = th[c].reqs[1].method
            /\ th[c].reqs[2].url = th[c].reqs[1].url
            /\ th[c].reqs[2].kw = th[c].reqs[1].kw
            /\ th[c].reqs[2].data = th[c].reqs[1].data
            /\ HeadersGet(th[c].reqs[2].headers, "Content-Type", None)
                  = ContentTypeFor(th[c].args.contenttype)
            /\ HeadersGet(th[c].reqs[2].headers, "Content-Type", None)
                  = HeadersGet(th[c].reqs[1].headers, "Content-Type", None)

\* C8: when a get_rest_response call of kind k has returned or raised, the
\* overlay's Content-Type is the value mapped to k (absent for multipart and
\* none).
C8_ContentTypeOfLastCall ==
    \A c \in Callers :
        RestCallDone(c) =>
            HeadersGet(headers, "Content-Type", None) = ContentTypeFor(th[c].args.contenttype)

Max(S) == CHOOSE x \in S : \A y \in S : y <= x

\* C9: when the redirect chase ends, its responses are N redirects followed by
\* one non-redirect response, exactly N follow-up GETs were issued (one
\* response per GET after the probe's), login_path is the URL of the final
\* response, i.e. the N-th redirect target, and the CSRF cookie is the value
\* carried by the last follow-up response that carried a non-empty one (the
\* value held before the chase if none did).
C9_RedirectChase ==
    \A c \in Callers :
        th[c].pc = "auth_submit" =>
            LET ch == th[c].chain
                n == Len(ch)
                N == Cardinality({i \in 1..n : ch[i].redirect})
                setters == {i \in 2..n : ch[i].csrf # None /\ ch[i].csrf # ""}
            IN /\ n >= 1
               /\ ~ch[n].redirect
               /\ \A i \in 1..(n - 1) : ch[i].redirect
               /\ n - 1 = N
               /\ th[c].login_path = ch[n].url
               /\ th[c].login_path = N
               /\ cookies[CSRF_COOKIE_NAME] =
                     IF setters # {} THEN ch[Max(setters)].csrf
                     ELSE th[c].pre.cookies[CSRF_COOKIE_NAME]

C9_Witness ==
    \E c \in Callers :
        /\ th[c].pc = "auth_submit"
        /\ Len(th[c].chain) = 3
        /\ th[c].chain[2].csrf = "c1"
        /\ th[c].chain[3].csrf = ""
        /\ th[c].pre.cookies[CSRF_COOKIE_NAME] = "c2"
        /\ cookies[CSRF_COOKIE_NAME] = "c1"
        /\ th[c].login_path = 2

\* C10: after a successful credential submission the proxy session cookie is
\* the value carried by response.history[-1], the last redirect response of
\* the POST, which is the second-to-last response of the whole exchange (the
\* hop right before the final redirect target); it is neither an earlier
\* hop's value nor the final response's.
C10_ProxyCookieFromLastRedirect ==
    \A c \in Callers :
        JustAuthenticated(c) =>
            /\ th[c].post.sent
            /\ Len(th[c].post.history) >= 1
            /\ cookies[PROXY_COOKIE_NAME] = th[c].post.history[Len(th[c].post.history)]

C10_Witness ==
    \E c \in Callers :
        /\ JustAuthenticated(c)
        /\ th[c].post.history = <<"p1", "p2">>
        /\ th[c].post.final = "p3"
        /\ th[c].pre.cookies[PROXY_COOKIE_NAME] = "p1"
        /\ cookies[PROXY_COOKIE_NAME] = "p2"

\* C11: against a gateway that answers every login request as it did before,
\* two authenticate() calls in sequence leave the same proxy cookie: the
\* second run ends with the value the first run ended with.
C11_AuthenticateIdempotent ==
    Len(runs) = 2 => runs[1] = runs[2]

\* a second login has completed with success, a CSRF cookie stored by the
\* first one and a proxy cookie received twice
C11_Witness ==
    /\ gateway.fixed
    /\ Len(runs) = 2
    /\ runs[2] = "p1"
    /\ th[1].pc = "done" /\ th[1].op = "authenticate" /\ th[1].result.kind = "ok"
    /\ th[1].pre.cookies[CSRF_COOKIE_NAME] = "c1"
    /\ th[1].pre.cookies[PROXY_COOKIE_NAME] = "p1"

\* the host names the scheme it is to be reached with
HasScheme(host, scheme) == StartsWith(host, scheme \o <<":","/","/">>)

\* C12: once construction has run for a host without a protocol scheme, or
\* for an http host whose string holds other than exactly two colons, it
\* has failed with the configuration error, authenticate() was not entered
\* (no network request) and no session was produced.
C12_HostValidated ==
    LET host == config.host
        bad == \/ ~HasScheme(host, <<"h","t","t","p">>)
                  /\ ~HasScheme(host, <<"h","t","t","p","s">>)
               \/ HasScheme(host, <<"h","t","t","p">>) /\ Count(host, ":") # 2
    IN (bad /\ session # "new") =>
          /\ session = "failed"
          /\ th[1].result.kind = "ConfigError"
          /\ th[1].authCalls = 0

\* C13: authentication is used for https servers only: when the
\* construction of a session for an https host has returned, it has entered
\* authenticate() exactly once; on a session for an http host neither the
\* construction nor any get_rest_response call enters authenticate().
C13_AuthOnlyForHttps ==
    /\ ( /\ HasScheme(config.host, <<"h","t","t","p","s">>)
         /\ th[1].op = "init" /\ th[1].pc = "done" /\ session = "ready" )
          => th[1].authCalls = 1
    /\ HasScheme(config.host, <<"h","t","t","p">>) =>
          \A c \in Callers : th[c].op \in {"init", "rest"} => th[c].authCalls = 0

\* C14: an authenticate() run goes from the probe through the redirect chase
\* to one credential POST and its outcome: while it probes or chases no POST
\* has been issued; it leaves the chase only on a response that is no
\* redirect (302 or 303), after redirects only; the POST is issued at most
\* once, to the URL of that last response and with the CSRF cookie stored at
\* that moment; a run that a transport error ended in the probe or the chase
\* has issued no POST.
C14_LoginStateMachine ==
    \A c \in Callers :
        LET t == th[c]
        IN /\ t.posts <= 1
           /\ t.pc \in {"auth_probe", "auth_chase", "auth_submit"} =>
                 t.posts = 0 /\ ~t.post.sent
           /\ t.pc = "auth_submit" =>
                 /\ t.chain # <<>>
                 /\ \A i \in 1..(Len(t.chain) - 1) : t.chain[i].redirect
                 /\ ~Last(t.chain).redirect
                 /\ t.resp.status \notin {302, 303}
                 /\ t.login_path = Last(t.chain).url
           /\ t.pc = "auth_finish" =>
                 /\ t.posts = 1 /\ t.post.sent
                 /\ t.resp.status \notin {302, 303}
                 /\ t.post.url = t.resp.url
                 /\ t.post.cookie = cookies[CSRF_COOKIE_NAME]
           /\ (t.pc = "done" /\ t.raisedAt \in {"auth_probe", "auth_chase"}) =>
                 t.posts = 0 /\ ~t.post.sent

\* the credentials went to the end of a two-hop chase with the CSRF cookie
\* of the first hop
C14_Witness ==
    /\ th[1].pc = "auth_finish"
    /\ th[1].post.url = 2
    /\ th[1].post.cookie = "c1"
    /\ th[1].pre.cookies[CSRF_COOKIE_NAME] = None

\* a transport error has ended a run in the chase
C14_WitnessTransportError ==
    /\ th[1].pc = "done"
    /\ th[1].raisedAt = "auth_chase"
    /\ th[1].result.kind = "ConnectionError"

\* C15: when a connection failure of the login probe has ended
\* authenticate(), the error raised is the host-configuration error for a
\* placeholder host (0.0.0.0), else the credentials-configuration error for
\* a placeholder username or password (dummy...), else the connection error
\* itself; and the cookie mapping and the header overlay are as they were
\* when authenticate() was entered.
C15_ProbeConnectionError ==
    \A c \in Callers :
        (th[c].pc = "done" /\ th[c].raisedAt = "auth_probe") =>
            /\ th[c].result.kind =
                  IF config.host \in {PlaceholderHost, HttpPlaceholderHost}
                      THEN "HostConfigError"
                  ELSE IF config.username = DummyUserName \/ config.password = DummyPassWord
                      THEN "CredentialsConfigError"
                  ELSE "ConnectionError"
            /\ cookies = th[c].pre.cookies
            /\ headers = th[c].pre.headers

\* a session that had logged in cannot reach the server for the next login,
\* and its password is a placeholder
C15_Witness ==
    /\ th[1].pc = "done" /\ th[1].raisedAt = "auth_probe"
    /\ th[1].op = "authenticate"
    /\ th[1].result.kind = "CredentialsConfigError"
    /\ config.username = UserName
    /\ cookies[PROXY_COOKIE_NAME] = "p1"
    /\ "Content-Type" \in DOMAIN headers

\* the cookie mapping has the CSRF entry and the proxy entry, no other
C16_TwoEntries == DOMAIN cookies = {CSRF_COOKIE_NAME, PROXY_COOKIE_NAME}

\* a step that changes the cookie mapping is a step of the login flow (a
\* follow-up GET of the chase, or the end of authenticate()), and a step
\* that sends a REST request sends it with the mapping as it is
C16_Frame ==
    /\ cookies' # cookies =>
          \E c \in Callers : th[c].pc \in {"auth_chase", "auth_finish"}
    /\ \A c \in Callers :
          Len(th'[c].reqs) = Len(th[c].reqs) + 1 =>
              /\ Last(th'[c].reqs).cookies = cookies
              /\ cookies' = cookies

\* C16: the cookie mapping is changed by the login flow only and read by the
\* dispatcher for every request: it always holds exactly the CSRF and the
\* proxy entry, every REST request carries both as they are when it is
\* sent, and a get_rest_response call without an expiry signal (no step of
\* the login flow) leaves both entries as they were.
C16_CookieMapping == [](C16_TwoEntries) /\ [][C16_Frame]_vars

\* a call without an expiry signal has returned on a session that holds both
\* cookies, and its request carried them
C16_Witness ==
    /\ RestCallDone(1)
    /\ th[1].authCalls = 0
    /\ Len(th[1].reqs) = 1
    /\ th[1].reqs[1].cookies = cookies
    /\ cookies[CSRF_COOKIE_NAME] = "c1"
    /\ cookies[PROXY_COOKIE_NAME] = "p2"

\* C17: two callers on one session without a lock.  Serialized, the first
\* request of every get_rest_response call carries the Content-Type selected
\* for its kind: it does whenever no other caller took a step between the
\* call's header selection and its send.  (The unsafe interleaving is the
\* state C17_Witness.)
C17_SerializedFirstRequest ==
    \A c \in Callers :
        (th[c].op = "rest" /\ Len(th[c].reqs) >= 1 /\ th[c].alone) =>
            HeadersGet(th[c].reqs[1].headers, "Content-Type", None)
                = ContentTypeFor(th[c].args.contenttype)

\* the unsafe interleaving: caller d re-authenticates between the header
\* selection of caller c and its send, and c's first request goes out with
\* the login overlay, while d's login has not yet stored its proxy cookie
C17_Witness ==
    \E c, d \in Callers :
        /\ c # d
        /\ th[c].op = "rest" /\ th[c].args.contenttype = "json"
        /\ Len(th[c].reqs) = 1
        /\ th[c].reqs[1].headers = HeadersUpdate(NoHeaders, "Content-Type", FormCT)
        /\ ~th[c].alone
        /\ th[d].op = "rest" /\ th[d].pc = "auth_finish"

\* C18: when the request resent after the re-authentication is answered with
\* status 200 or 201 and an HTML Content-Type again, the call raises nothing
\* and returns that response object: the expiry check is not run on the
\* second response, only its status is classified.
C18_HtmlAfterRetryIsSuccess ==
    \A c \in Callers :
        ( /\ RestCallDone(c)
          /\ Len(th[c].resps) = 2
          /\ th[c].resps[2].status \in {200, 201}
          /\ th[c].resps[2].ctype = HtmlCT )
        => /\ th[c].result.kind = "response"
           /\ th[c].result.response = th[c].resps[2]
           /\ th[c].authCalls = 1
           /\ Len(th[c].reqs) = 2

\* the login page came back twice, the second time with 201
C18_Witness ==
    /\ RestCallDone(1)
    /\ Len(th[1].resps) = 2
    /\ th[1].resps[1].ctype = HtmlCT
    /\ th[1].resps[2] = [status |-> 201, ctype |-> HtmlCT, body |-> RawHtml]
    /\ th[1].result.kind = "response"

\* a login whose chase stored no CSRF cookie has posted the credentials with
\* the value the session held when authenticate() was entered
C19_EarlierValueSubmitted ==
    \A c \in Callers :
        (th[c].pc = "auth_finish" /\ ~th[c].csrfSet) =>
            th[c].post.cookie = th[c].pre.cookies[CSRF_COOKIE_NAME]

\* no step unsets a CSRF cookie that is set, and a follow-up GET whose
\* response carries no CSRF cookie, or an empty one, leaves the mapping as it is
C19_Kept ==
    /\ cookies[CSRF_COOKIE_NAME] # None => cookies'[CSRF_COOKIE_NAME] # None
    /\ \A c \in Callers :
          ( /\ Len(th'[c].chain) = Len(th[c].chain) + 1
            /\ Len(th[c].chain) >= 1
            /\ Last(th'[c].chain).csrf \in {None, ""} )
          => cookies' = cookies

\* C19: the stored CSRF cookie is never cleared: once set it stays set over
\* every step of authenticate() and get_rest_response; a hop of the chase
\* without a CSRF cookie, or with an empty one, leaves the stored value; and
\* an authenticate() whose chase stores none posts the credentials with the
\* value left by an earlier run.
C19_CsrfNeverCleared == [](C19_EarlierValueSubmitted) /\ [][C19_Kept]_vars

\* a second login went through one hop that carried no CSRF cookie and
\* posted the credentials with the cookie of the first login
C19_Witness ==
    /\ th[1].pc = "auth_finish"
    /\ ~th[1].csrfSet
    /\ th[1].post.url = 1
    /\ th[1].post.cookie = "c1"
    /\ th[1].pre.cookies[CSRF_COOKIE_NAME] = "c1"
    /\ th[1].authCalls = 1 /\ th[1].op = "rest"

\* C20: when the authenticate() run inside a get_rest_response call has
\* failed (login rejected, or a connection error), the call has raised that
\* error and not a request failure, has sent no second REST request, and the
\* proxy cookie is the one the session held before the call (the one the
\* first request carried).
C20_FailedReauthPropagates ==
    \A c \in Callers :
        (RestCallDone(c) /\ th[c].raisedAt # "none") =>
            /\ th[c].result.kind \in {"LoginRejected", "ConnectionError",
                                      "HostConfigError", "CredentialsConfigError"}
            /\ th[c].authCalls = 1
            /\ Len(th[c].reqs) = 1
            /\ th[c].events = <<"request", "authenticate">>
            /\ cookies[PROXY_COOKIE_NAME] = th[c].reqs[1].cookies[PROXY_COOKIE_NAME]

\* a call on a logged-in session got a 403, and the login was rejected
C20_Witness ==
    /\ RestCallDone(1)
    /\ th[1].raisedAt = "auth_finish"
    /\ th[1].resps = << [status |-> 403, ctype |-> None, body |-> RawHtml] >>
    /\ th[1].result.kind = "LoginRejected"
    /\ cookies[PROXY_COOKIE_NAME] = "p1"

====
